---------------------------- MODULE Spec2Model ----------------------------
(***************************************************************************)
(* Clarity, personal-finance dashboard (frontend/src/Dashboard.tsx and     *)
(* CategoryView).  The model covers the client-side derived state: the     *)
(* aggregation of a transaction list, the spending-limit evaluator, the    *)
(* savings-milestone hook, the fetch of the transaction list, the category *)
(* ordering store, the charts' data, the transaction form with its steps,  *)
(* and logout and login.                                                   *)
(*                                                                         *)
(* Numbers.  A JavaScript number is a record [nan, v]: v counts hundredths *)
(* (the resolution of an amount, step="0.01"), nan marks NaN.  Every       *)
(* comparison with NaN is false and every sum with NaN is NaN.             *)
(* Strings that are parsed (amounts) are sequences of one-character        *)
(* strings.  Dates are day ordinals: ISO dates of equal width compare      *)
(* lexically as the days they name.                                        *)
(***************************************************************************)
EXTENDS Integers, Sequences, FiniteSets, TLC

VARIABLES
    \* Dashboard
    page,            \* "dashboard" | "login": the route shown
    transactions,    \* the displayed transaction list
    loading,         \* the loading flag
    inflight,        \* fetches awaiting their response, in issue order
    \* useMilestones
    celebrated,      \* thresholds already celebrated, in firing order
    toastMilestone,  \* the active toast's threshold, 0 for null
    prevNetRef,      \* prevNetRef.current
    timers,          \* pending dismissal timeouts (their ids)
    cleanup,         \* timer the last effect run's cleanup clears, 0 for none
    effDeps,         \* [net, celebrated] of the last effect run
    \* useSpendingLimits and the render of the derived values
    today,           \* the reference day
    limits,          \* [daily, weekly], in hundredths
    limitsStore,     \* localStorage "clarity:limits"
    agg,             \* the derived values of the last render
    \* CategoryView
    activeTab,       \* "expense" | "income"
    activeCategory,  \* the category being dragged, "" for null
    categoryOrder,   \* the saved order held in state
    orderStore,      \* localStorage "clarity:categoryOrder"
    \* Dashboard: view mode and filters, persisted per session
    view,            \* "table" | "category"
    filterType,      \* "" for no filter
    filterCategory,
    filterFrom,
    filterTo,
    sessionStorage,  \* key -> [present, val]
    effSync,         \* the values the persistence and fetch effects last ran for
    \* Dashboard: the transaction form, the delete dialog, the limits dialog
    showModal,
    editTarget,      \* the transaction being edited, NullTx for null
    form,
    formErrors,
    saving,
    step,            \* the step of the form, 0 while the form is not shown
    deleteId,        \* 0 for null
    requests,        \* create, update and delete requests awaiting their response
    alerted,         \* alert("Failed to delete.") has been raised
    showLimitModal,
    \* localStorage "access" and "refresh"
    tokens,          \* [access, refresh]: whether each item is present
    \* history (not program state)
    events,          \* thresholds for which a milestone event was emitted
    obsLog,          \* net values seen by the effect, with what each fired
    shownFrom,       \* which fetch the displayed list came from
    lastAction,      \* the last to run of the view, filter and limits handlers,
                     \* the mounts and the continuations of the requests, with
                     \* the kind of failure of a failed request
    catHist          \* the last drop in the category view, and whether the
                     \* view was mounted again after it

dashVars == <<page, transactions, loading, inflight>>
hookVars == <<celebrated, toastMilestone, prevNetRef, timers, cleanup, effDeps>>
aggVars  == <<today, limits, limitsStore, agg>>
catVars  == <<activeTab, activeCategory, categoryOrder, orderStore>>
histVars == <<events, obsLog, shownFrom>>
filterVars == <<view, filterType, filterCategory, filterFrom, filterTo,
                sessionStorage, effSync>>
crudVars == <<showModal, editTarget, form, formErrors, saving, step, deleteId,
              requests, alerted>>
restVars == <<tokens, filterVars, crudVars, showLimitModal, lastAction, catHist>>
vars     == <<dashVars, hookVars, aggVars, catVars, histVars, restVars>>

----------------------------------------------------------------------------
(* Bounds *)

MaxObs      == 5   \* net values the milestone effect may log, the mount's included
MaxInflight == 2   \* fetches awaiting a response at once
MaxTx       == 2   \* length of the transaction lists the aggregates are run on
MaxCatTx    == 3   \* length of the transaction lists the category view is given
MaxChartTx  == 3   \* length of the transaction lists the charts are built from

----------------------------------------------------------------------------
(* Numbers *)

Cents == 100

Num(x) == [nan |-> FALSE, v |-> x]
NaN    == [nan |-> TRUE,  v |-> 0]
Units(n) == Num(n * Cents)

NAdd(a, b) == IF a.nan \/ b.nan THEN NaN ELSE Num(a.v + b.v)
NSub(a, b) == IF a.nan \/ b.nan THEN NaN ELSE Num(a.v - b.v)
NLt(a, b)  == ~a.nan /\ ~b.nan /\ a.v < b.v
NLe(a, b)  == ~a.nan /\ ~b.nan /\ a.v <= b.v
NGe(a, b)  == ~a.nan /\ ~b.nan /\ a.v >= b.v
NGt(a, b)  == ~a.nan /\ ~b.nan /\ a.v > b.v

IsDigit(c) == c \in {"0", "1", "2", "3", "4", "5", "6", "7", "8", "9"}

DigitVal(c) ==
    CASE c = "0" -> 0 [] c = "1" -> 1 [] c = "2" -> 2 [] c = "3" -> 3
      [] c = "4" -> 4 [] c = "5" -> 5 [] c = "6" -> 6 [] c = "7" -> 7
      [] c = "8" -> 8 [] c = "9" -> 9

RECURSIVE LeadingWs(_, _)
LeadingWs(s, i) ==
    IF i <= Len(s) /\ s[i] = " " THEN 1 + LeadingWs(s, i + 1) ELSE 0

RECURSIVE DigitsLen(_, _)
DigitsLen(s, i) ==
    IF i <= Len(s) /\ IsDigit(s[i]) THEN 1 + DigitsLen(s, i + 1) ELSE 0

RECURSIVE DigitsVal(_, _, _)
DigitsVal(s, i, n) ==
    IF n = 0 THEN 0
    ELSE 10 * DigitsVal(s, i, n - 1) + DigitVal(s[i + n - 1])

(* parseFloat: leading white space, an optional sign, the longest decimal  *)
(* literal that follows; NaN when no digit is found.  Inputs carry at most *)
(* two fraction digits and no exponent.                                    *)
ParseFloat(s) ==
    LET i0    == LeadingWs(s, 1) + 1
        neg   == i0 <= Len(s) /\ s[i0] = "-"
        i1    == IF i0 <= Len(s) /\ s[i0] \in {"-", "+"} THEN i0 + 1 ELSE i0
        nInt  == DigitsLen(s, i1)
        i2    == i1 + nInt
        nFrac == IF i2 <= Len(s) /\ s[i2] = "." THEN DigitsLen(s, i2 + 1) ELSE 0
        f1    == IF nFrac >= 1 THEN DigitVal(s[i2 + 1]) ELSE 0
        f2    == IF nFrac >= 2 THEN DigitVal(s[i2 + 2]) ELSE 0
        mag   == DigitsVal(s, i1, nInt) * Cents + 10 * f1 + f2
    IN  IF nInt + nFrac = 0 THEN NaN
        ELSE Num(IF neg THEN 0 - mag ELSE mag)

----------------------------------------------------------------------------
(* History records *)

Did(op)         == [op |-> op, err |-> "none"]
Failed(op, err) == [op |-> op, err |-> err]

----------------------------------------------------------------------------
(* Dialogs *)

\* No dialog covers the page.
NoOverlay == ~showModal /\ ~showLimitModal /\ deleteId = 0

----------------------------------------------------------------------------
(* Transactions and the totals of the summary cards *)

Tx(ty, am, cat, d) == [type |-> ty, amount |-> am, category |-> cat, date |-> d]

OfType(ts, ty) == SelectSeq(ts, LAMBDA t : t.type = ty)

\* ts.reduce((s, t) => s + parseFloat(t.amount), 0)
RECURSIVE SumAmounts(_)
SumAmounts(ts) ==
    IF ts = <<>> THEN Num(0)
    ELSE NAdd(SumAmounts(SubSeq(ts, 1, Len(ts) - 1)),
              ParseFloat(ts[Len(ts)].amount))

totalIncome(ts)  == SumAmounts(OfType(ts, "income"))
totalExpense_All(ts) == SumAmounts(ts)
totalExpense(ts) == SumAmounts(OfType(ts, "expense"))
net(ts)          == NSub(totalIncome(ts), totalExpense(ts))

----------------------------------------------------------------------------
(* useMilestones *)

SAVING_MILESTONES == <<100, 250, 500, 1000, 2500, 5000, 10000>>

Includes(seq, x) == \E i \in 1..Len(seq) : seq[i] = x

\* const prevNet = prevNetRef.current, read before the ref is overwritten
EffectPrevNet_AfterAssign(ref, n) == n
EffectPrevNet(ref, n) == ref

\* prevNet < m && net >= m && !celebrated.includes(m)
Crosses_NoIncludes(prevNet, n, cel, m) ==
    NLt(prevNet, Units(m)) /\ NGe(n, Units(m))
Crosses(prevNet, n, cel, m) ==
    NLt(prevNet, Units(m)) /\ NGe(n, Units(m)) /\ ~Includes(cel, m)

\* for (const m of SAVING_MILESTONES) { if (...) { ...; return } }:
\* the first threshold, in list order, that the condition accepts; 0 for none
RECURSIVE ScanFrom(_, _, _, _)
ScanFrom(i, prevNet, n, cel) ==
    IF i > Len(SAVING_MILESTONES) THEN 0
    ELSE IF Crosses(prevNet, n, cel, SAVING_MILESTONES[i])
         THEN SAVING_MILESTONES[i]
         ELSE ScanFrom(i + 1, prevNet, n, cel)

RECURSIVE ScanDown(_, _, _, _)
ScanDown(i, prevNet, n, cel) ==
    IF i < 1 THEN 0
    ELSE IF Crosses(prevNet, n, cel, SAVING_MILESTONES[i])
         THEN SAVING_MILESTONES[i]
         ELSE ScanDown(i - 1, prevNet, n, cel)

FirstCrossed_Highest(prevNet, n, cel) ==
    ScanDown(Len(SAVING_MILESTONES), prevNet, n, cel)
FirstCrossed(prevNet, n, cel) == ScanFrom(1, prevNet, n, cel)

\* The milestone the effect body fires for net n, 0 for none.
Fired_Static(ref, n, cel) == FirstCrossed(Num(0), n, cel)
Fired(ref, n, cel) ==
    LET prevNet == EffectPrevNet(ref, n)
    IN  IF NLe(n, prevNet) THEN 0
        ELSE FirstCrossed(prevNet, n, cel)

CurDeps == [net |-> net(transactions), celebrated |-> celebrated]

\* The id of the timeout the next setTimeout returns.
NewTimer == Len(events) + 1

\* History: a net value new to the effect opens an entry; a re-run at the
\* same net adds what it fired to the last entry.
LogRun(n, m) ==
    LET f    == IF m = 0 THEN <<>> ELSE <<m>>
        last == obsLog[Len(obsLog)]
    IN  IF n = last.net
        THEN [obsLog EXCEPT ![Len(obsLog)].fired = last.fired \o f]
        ELSE Append(obsLog, [net |-> n, fired |-> f])

(* One run of the effect of useMilestones: React runs it after a render    *)
(* whose [net, celebrated] differ from those of the last run, after the    *)
(* cleanup the last run returned.                                          *)
RunEffect ==
    /\ page = "dashboard"
    /\ CurDeps # effDeps
    /\ LET n  == net(transactions)
           t1 == IF cleanup = 0 THEN timers ELSE timers \ {cleanup}
           m  == Fired(prevNetRef, n, celebrated)
       IN  /\ prevNetRef' = n
           /\ effDeps' = CurDeps
           /\ IF m = 0
              THEN /\ cleanup' = 0
                   /\ timers' = t1
                   /\ UNCHANGED <<celebrated, toastMilestone, events>>
              ELSE /\ celebrated' = Append(celebrated, m)
                   /\ toastMilestone' = m
                   /\ cleanup' = NewTimer
                   /\ timers' = t1 \cup {NewTimer}
                   /\ events' = Append(events, m)
           /\ obsLog' = LogRun(n, m)
    /\ UNCHANGED <<dashVars, aggVars, catVars, shownFrom>>
    /\ UNCHANGED restVars

\* setTimeout(() => setToastMilestone(null), 5000)
TimerFire(t) ==
    /\ page = "dashboard"
    /\ t \in timers
    /\ timers' = timers \ {t}
    /\ toastMilestone' = 0
    /\ UNCHANGED <<celebrated, prevNetRef, cleanup, effDeps>>
    /\ UNCHANGED <<dashVars, aggVars, catVars, histVars>>
    /\ UNCHANGED restVars

\* dismissToast, the toast's onClick
DismissToast ==
    /\ page = "dashboard"
    /\ toastMilestone # 0
    /\ toastMilestone' = 0
    /\ UNCHANGED <<celebrated, prevNetRef, timers, cleanup, effDeps>>
    /\ UNCHANGED <<dashVars, aggVars, catVars, histVars>>
    /\ UNCHANGED restVars

----------------------------------------------------------------------------
(* Dashboard.fetchTransactions *)

RemoveAt(seq, i) == SubSeq(seq, 1, i - 1) \o SubSeq(seq, i + 1, Len(seq))

\* setLoading(true); the request is sent.  Every earlier request stops
\* being the most recent one.
FetchStart(cap) ==
    /\ page = "dashboard"
    /\ Len(inflight) < cap
    /\ loading' = TRUE
    /\ inflight' = Append([i \in 1..Len(inflight) |-> [latest |-> FALSE]],
                          [latest |-> TRUE])
    /\ shownFrom' = IF shownFrom = "none" THEN "none" ELSE "stale"
    /\ UNCHANGED <<page, transactions>>
    /\ UNCHANGED <<hookVars, aggVars, catVars, events, obsLog>>
    /\ UNCHANGED restVars

\* The response of request i arrives: setTransactions(res.data); finally
\* setLoading(false).
FetchResolve(i, data) ==
    /\ page = "dashboard"
    /\ i \in 1..Len(inflight)
    /\ Len(obsLog) < MaxObs
    /\ transactions' = data
    /\ loading' = FALSE
    /\ shownFrom' = IF inflight[i].latest THEN "latest" ELSE "stale"
    /\ inflight' = RemoveAt(inflight, i)
    /\ UNCHANGED page
    /\ UNCHANGED <<hookVars, aggVars, catVars, events, obsLog>>
    /\ UNCHANGED restVars

\* The ways a request fails: 401, 400 with field-keyed errors, no response,
\* 500.  A GET is not validated.
Errors == {"auth", "validation", "network", "server"}
FetchErrors == Errors \ {"validation"}

\* The route after fetchTransactions caught a failure of kind err:
\* catch { navigate("/login") }, whatever was thrown.
FetchCatch(err) == "login"

\* Request i fails with err: catch { navigate("/login") } finally
\* setLoading(false).  Leaving the route unmounts the dashboard, which runs
\* the effect's cleanup.
FetchFail(i, err) ==
    /\ page = "dashboard"
    /\ i \in 1..Len(inflight)
    /\ page' = FetchCatch(err)
    /\ loading' = FALSE
    /\ inflight' = RemoveAt(inflight, i)
    /\ timers' = IF cleanup = 0 THEN timers ELSE timers \ {cleanup}
    /\ lastAction' = Failed("fetchFail", err)
    /\ UNCHANGED transactions
    /\ UNCHANGED <<celebrated, toastMilestone, prevNetRef, cleanup, effDeps>>
    /\ UNCHANGED <<aggVars, catVars, histVars>>
    /\ UNCHANGED <<tokens, filterVars, crudVars, showLimitModal, catHist>>

FetchReject(i) == \E err \in FetchErrors : FetchFail(i, err)

----------------------------------------------------------------------------
(* useSpendingLimits, LimitBanner, LimitModal *)

WeekAgoDays == 7

\* new Date(Date.now() - 7 * 86400000).toISOString().split("T")[0]
weekAgo(td) == td - WeekAgoDays

dailySpend(ts, td) ==
    SumAmounts(SelectSeq(ts, LAMBDA t : t.type = "expense" /\ t.date = td))

weeklySpend(ts, td) ==
    SumAmounts(SelectSeq(ts, LAMBDA t : t.type = "expense" /\ t.date >= weekAgo(td)))

(* limit > 0 ? (spend / limit) * 100 : 0, kept as the fraction num / den  *)
(* (den > 0) so that the comparisons with 80 and 100 are exact.            *)
Pct(spend, limit) ==
    IF limit > 0
    THEN [nan |-> spend.nan, num |-> 100 * spend.v, den |-> limit]
    ELSE [nan |-> FALSE, num |-> 0, den |-> 1]

PctLt(p, k) == ~p.nan /\ p.num < k * p.den
PctLe(p, k) == ~p.nan /\ p.num <= k * p.den
PctGe(p, k) == ~p.nan /\ p.num >= k * p.den

\* if (limit <= 0 || pct < 80 || dismissed) return null
BannerHidden_Le(limit, pct, dismissed) ==
    limit <= 0 \/ PctLe(pct, 80) \/ dismissed
BannerHidden(limit, pct, dismissed) ==
    limit <= 0 \/ PctLt(pct, 80) \/ dismissed

\* What the banner renders: nothing, the over style, the warning style, or
\* the banner with neither style.
LimitBanner(limit, pct, dismissed) ==
    LET over    == PctGe(pct, 100)
        warning == PctGe(pct, 80) /\ PctLt(pct, 100)
    IN  IF BannerHidden(limit, pct, dismissed) THEN "none"
        ELSE IF over THEN "over"
        ELSE IF warning THEN "warning"
        ELSE "unstyled"

\* parseFloat(x) || 0, in hundredths
ParseOrZero(str) ==
    LET x == ParseFloat(str) IN IF x.nan THEN 0 ELSE x.v

NoStore == [present |-> FALSE, val |-> <<>>]

DefaultLimits == [daily |-> 0, weekly |-> 0]

\* Number.prototype.toString as JSON.stringify applies it, for a number of
\* hundredths: the integer digits, then the fraction without trailing zeros.
DigitChar(d) ==
    CASE d = 0 -> "0" [] d = 1 -> "1" [] d = 2 -> "2" [] d = 3 -> "3"
      [] d = 4 -> "4" [] d = 5 -> "5" [] d = 6 -> "6" [] d = 7 -> "7"
      [] d = 8 -> "8" [] d = 9 -> "9"

RECURSIVE DigitsOf(_)
DigitsOf(n) ==
    IF n < 10 THEN <<DigitChar(n)>>
    ELSE Append(DigitsOf(n \div 10), DigitChar(n % 10))

NumToString_Truncated(v) ==
    LET a == IF v < 0 THEN 0 - v ELSE v
    IN  (IF v < 0 THEN <<"-">> ELSE <<>>) \o DigitsOf(a \div Cents)
NumToString(v) ==
    LET a    == IF v < 0 THEN 0 - v ELSE v
        frac == a % Cents
    IN  (IF v < 0 THEN <<"-">> ELSE <<>>)
        \o DigitsOf(a \div Cents)
        \o (IF frac = 0 THEN <<>>
            ELSE IF frac % 10 = 0 THEN <<".", DigitChar(frac \div 10)>>
            ELSE <<".", DigitChar(frac \div 10), DigitChar(frac % 10)>>)

\* JSON.stringify(l): the object with its two numbers as JSON numerals
StringifyLimits(l) == [daily |-> NumToString(l.daily), weekly |-> NumToString(l.weekly)]

\* JSON.parse of that text
ParseLimits(text) == [daily  |-> ParseFloat(text.daily).v,
                      weekly |-> ParseFloat(text.weekly).v]

\* useState initialiser: saved ? JSON.parse(saved) : { daily: 0, weekly: 0 }
LoadLimits(store) == IF store.present THEN ParseLimits(store.val) ELSE DefaultLimits

(* The charts: buildAreaData and buildPieData *)

\* A calendar year, leap days left aside.
YearDays == 365

\* The days by which the local calendar date at UTC midnight differs from the
\* UTC date: none at UTC and east of it, one back west of it.
TzShifts == {0, 0 - 1}

\* fmtShort(d): new Date(d) is midnight UTC of the ISO date d, and
\* toLocaleDateString("en-US", { month, day }) names the month and the day
\* of that instant in the browser's time zone, without the year.  The label
\* is kept as the day of the year it names.
fmtShort(d, shift) == ((d + shift - 1) % YearDays) + 1

\* [...transactions].sort((a, b) => a.date.localeCompare(b.date)): stable
RECURSIVE SortByDate(_)
SortByDate(ts) ==
    IF ts = <<>> THEN <<>>
    ELSE LET sorted == SortByDate(SubSeq(ts, 1, Len(ts) - 1))
             t      == ts[Len(ts)]
             k      == Len(SelectSeq(sorted, LAMBDA e : e.date <= t.date))
         IN  SubSeq(sorted, 1, k) \o <<t>> \o SubSeq(sorted, k + 1, Len(sorted))

\* The position of key d in a Map kept as the sequence of its entries in
\* insertion order, 0 when the map has no such key.
KeyIndex(m, d) ==
    IF \E i \in 1..Len(m) : m[i].key = d
    THEN CHOOSE i \in 1..Len(m) : m[i].key = d
    ELSE 0

\* if (t.type === "income") e.income += parseFloat(t.amount);
\* else                     e.expense += parseFloat(t.amount);
AreaAdd_AllExpense(e, t) == [e EXCEPT !.expense = NAdd(@, ParseFloat(t.amount))]
AreaAdd(e, t) ==
    IF t.type = "income"
    THEN [e EXCEPT !.income  = NAdd(@, ParseFloat(t.amount))]
    ELSE [e EXCEPT !.expense = NAdd(@, ParseFloat(t.amount))]

\* The forEach over the sorted list: the map after its last transaction.
RECURSIVE AreaMap(_)
AreaMap(sorted) ==
    IF sorted = <<>> THEN <<>>
    ELSE LET front == AreaMap(SubSeq(sorted, 1, Len(sorted) - 1))
             t     == sorted[Len(sorted)]
             base  == IF KeyIndex(front, t.date) = 0
                      THEN Append(front, [key |-> t.date, income |-> Num(0),
                                          expense |-> Num(0)])
                      ELSE front
         IN  [base EXCEPT ![KeyIndex(base, t.date)] = AreaAdd(@, t)]

\* Array.from(map.entries()).map(([date, v]) => ({ date: fmtShort(date), ...v }))
buildAreaData(ts, shift) ==
    LET m == AreaMap(SortByDate(ts))
    IN  [i \in 1..Len(m) |-> [date    |-> fmtShort(m[i].key, shift),
                              income  |-> m[i].income,
                              expense |-> m[i].expense]]

\* map.set(t.category, (map.get(t.category) ?? 0) + parseFloat(t.amount))
\* over the expenses in list order
RECURSIVE PieMap(_)
PieMap(es) ==
    IF es = <<>> THEN <<>>
    ELSE LET front == PieMap(SubSeq(es, 1, Len(es) - 1))
             t     == es[Len(es)]
             base  == IF KeyIndex(front, t.category) = 0
                      THEN Append(front, [key |-> t.category, value |-> Num(0)])
                      ELSE front
         IN  [base EXCEPT ![KeyIndex(base, t.category)].value =
                              NAdd(@, ParseFloat(t.amount))]

\* value.toFixed(2): the numeral with two fraction digits, "NaN" for NaN
toFixed2(x) ==
    IF x.nan THEN <<"N", "a", "N">>
    ELSE LET a == IF x.v < 0 THEN 0 - x.v ELSE x.v
         IN  (IF x.v < 0 THEN <<"-">> ELSE <<>>)
             \o DigitsOf(a \div Cents)
             \o <<".", DigitChar((a % Cents) \div 10), DigitChar(a % 10)>>

\* .map(([name, value]) => ({ name, value: parseFloat(value.toFixed(2)) }))
PieEntries(ts) ==
    LET m == PieMap(OfType(ts, "expense"))
    IN  [i \in 1..Len(m) |-> [name  |-> m[i].key,
                              value |-> ParseFloat(toFixed2(m[i].value))]]

\* (a, b) => b.value - a.value puts x before e when it is negative, that is
\* when e.value < x.value; NaN compares as equal.
PieBefore_Ascending(x, e) == NLt(x.value, e.value)
PieBefore(x, e) == NLt(e.value, x.value)

\* Array.prototype.sort with that comparator: stable, descending by value
RECURSIVE SortPie(_)
SortPie(es) ==
    IF es = <<>> THEN <<>>
    ELSE LET sorted == SortPie(SubSeq(es, 1, Len(es) - 1))
             x      == es[Len(es)]
             k      == Len(SelectSeq(sorted, LAMBDA e : ~PieBefore(x, e)))
         IN  SubSeq(sorted, 1, k) \o <<x>> \o SubSeq(sorted, k + 1, Len(sorted))

\* The comparator is a consistent one unless a NaN value stands beside two
\* different numbers: it calls the NaN equal to both.
ConsistentOrder(es) ==
    \/ \A i \in 1..Len(es) : ~es[i].value.nan
    \/ \A i, j \in 1..Len(es) :
           (~es[i].value.nan /\ ~es[j].value.nan) => es[i].value = es[j].value

\* The rearrangements of a sequence
Rearrangements(es) ==
    LET n == Len(es)
        P == {p \in [1..n -> 1..n] : \A i, j \in 1..n : p[i] = p[j] => i = j}
    IN  {[i \in 1..n |-> es[p[i]]] : p \in P}

\* buildPieData: what the sort may return.  With an inconsistent comparator
\* the order is implementation-defined.
buildPieData(ts) ==
    LET es == PieEntries(ts)
    IN  IF ConsistentOrder(es) THEN {SortPie(es)} ELSE Rearrangements(es)

\* The two charts' data in one render
Charts(ts) ==
    {[areaData |-> buildAreaData(ts, shift), pieData |-> pie] :
        shift \in TzShifts, pie \in buildPieData(ts)}

(* The values one render of the dashboard derives from its state; the     *)
(* banners are those of a render in which neither has been dismissed.      *)
Derive(ts, td, lim) ==
    LET ds == dailySpend(ts, td)
        ws == weeklySpend(ts, td)
        dp == Pct(ds, lim.daily)
        wp == Pct(ws, lim.weekly)
    IN  [rendered     |-> TRUE,
         totalIncome  |-> totalIncome(ts),
         totalExpense |-> totalExpense(ts),
         net          |-> net(ts),
         dailySpend   |-> ds,
         weeklySpend  |-> ws,
         dailyPct     |-> dp,
         weeklyPct    |-> wp,
         dailyBanner  |-> LimitBanner(lim.daily, dp, FALSE),
         weeklyBanner |-> LimitBanner(lim.weekly, wp, FALSE)]

\* What one render may derive: the values above and the charts' data
Rendered(ts, td, lim) == {Derive(ts, td, lim) @@ c : c \in Charts(ts)}

NoAgg ==
    [Derive(<<>>, 0, DefaultLimits) EXCEPT !.rendered = FALSE]
        @@ [areaData |-> <<>>, pieData |-> <<>>]

\* The dashboard renders when the values it derives are out of date.
Render ==
    /\ agg \notin Rendered(transactions, today, limits)
    /\ agg' \in Rendered(transactions, today, limits)
    /\ UNCHANGED <<today, limits, limitsStore>>
    /\ UNCHANGED <<dashVars, hookVars, catVars, histVars>>
    /\ UNCHANGED restVars

\* LimitModal.save with the two inputs' texts, then saveLimits: setLimits,
\* localStorage.setItem; the dashboard renders again.
\* The Limits button: setShowLimitModal(true)
OpenLimits ==
    /\ page = "dashboard"
    /\ NoOverlay
    /\ showLimitModal' = TRUE
    /\ lastAction' = Did("openLimits")
    /\ UNCHANGED <<dashVars, hookVars, aggVars, catVars, histVars>>
    /\ UNCHANGED <<tokens, filterVars, crudVars, catHist>>

\* onClose of the dialog (Cancel, the close button, the overlay)
CloseLimits ==
    /\ page = "dashboard"
    /\ showLimitModal
    /\ showLimitModal' = FALSE
    /\ lastAction' = Did("closeLimits")
    /\ UNCHANGED <<dashVars, hookVars, aggVars, catVars, histVars>>
    /\ UNCHANGED <<tokens, filterVars, crudVars, catHist>>

\* LimitModal.save with the two inputs' texts: saveLimits (setLimits,
\* localStorage.setItem), then onClose; the dashboard renders again.
SaveLimits(dailyText, weeklyText) ==
    LET l == [daily |-> ParseOrZero(dailyText), weekly |-> ParseOrZero(weeklyText)]
    IN  /\ page = "dashboard"
        /\ showLimitModal
        /\ agg.rendered
        /\ limits' = l
        /\ limitsStore' = [present |-> TRUE, val |-> StringifyLimits(l)]
        /\ agg' \in Rendered(transactions, today, l)
        /\ showLimitModal' = FALSE
        /\ lastAction' = Did("saveLimits")
        /\ UNCHANGED today
        /\ UNCHANGED <<dashVars, hookVars, catVars, histVars>>
        /\ UNCHANGED <<tokens, filterVars, crudVars, catHist>>

----------------------------------------------------------------------------
(* CategoryView *)

\* Array.from(grouped.keys()): the categories of the active tab's
\* transactions, in first-encountered order
RECURSIVE Keys(_)
Keys(ts) ==
    IF ts = <<>> THEN <<>>
    ELSE LET front == Keys(SubSeq(ts, 1, Len(ts) - 1))
             c     == ts[Len(ts)].category
         IN  IF Includes(front, c) THEN front ELSE Append(front, c)

grouped(ts, tab) == Keys(OfType(ts, tab))

\* Merge saved order with live data
orderedCategories_Unfiltered(ts, tab, order) ==
    LET fromData == grouped(ts, tab)
    IN  order \o SelectSeq(fromData, LAMBDA c : ~Includes(order, c))
orderedCategories(ts, tab, order) ==
    LET fromData == grouped(ts, tab)
        saved    == SelectSeq(order, LAMBDA c : Includes(fromData, c))
        newOnes  == SelectSeq(fromData, LAMBDA c : ~Includes(saved, c))
    IN  saved \o newOnes

\* Array.prototype.indexOf, 0-based, -1 when absent
IndexOf(seq, x) ==
    IF Includes(seq, x)
    THEN (CHOOSE i \in 1..Len(seq) :
              seq[i] = x /\ \A j \in 1..(i - 1) : seq[j] # x) - 1
    ELSE 0 - 1

InsertAt(seq, i, x) == SubSeq(seq, 1, i) \o <<x>> \o SubSeq(seq, i + 1, Len(seq))

(* arrayMove of @dnd-kit/sortable, on 0-based indices:                     *)
(*   newArray.splice(to < 0 ? newArray.length + to : to, 0,                *)
(*                   newArray.splice(from, 1)[0])                          *)
(* A negative from counts from the end; the removed item is undefined when *)
(* nothing is removed.                                                     *)
arrayMove_Swap(arr, from, to) ==
    [i \in 1..Len(arr) |->
        IF i = from + 1 THEN arr[to + 1]
        ELSE IF i = to + 1 THEN arr[from + 1]
        ELSE arr[i]]
arrayMove(arr, from, to) ==
    LET n     == Len(arr)
        start == IF to < 0 THEN n + to ELSE to
        r     == IF from < 0 THEN (IF n + from < 0 THEN 0 ELSE n + from) ELSE from
        item  == IF r < n THEN arr[r + 1] ELSE "undefined"
        rest  == IF r < n THEN RemoveAt(arr, r + 1) ELSE arr
        at    == IF start < 0 THEN 0
                 ELSE IF start > Len(rest) THEN Len(rest) ELSE start
    IN  InsertAt(rest, at, item)

\* useState initialiser: saved ? JSON.parse(saved) : []
LoadOrder(store) == IF store.present THEN store.val ELSE <<>>

SetActiveTab(tab) ==
    /\ activeCategory = ""
    /\ activeTab' = tab
    /\ UNCHANGED <<activeCategory, categoryOrder, orderStore>>
    /\ UNCHANGED <<dashVars, hookVars, aggVars, histVars>>
    /\ UNCHANGED restVars

handleDragStart(c) ==
    /\ activeCategory = ""
    /\ Includes(orderedCategories(transactions, activeTab, categoryOrder), c)
    /\ activeCategory' = c
    /\ UNCHANGED <<activeTab, categoryOrder, orderStore>>
    /\ UNCHANGED <<dashVars, hookVars, aggVars, histVars>>
    /\ UNCHANGED restVars

\* handleDragEnd with active the dragged category and over the category it
\* is dropped on ("" for none); saveOrder sets the state and the storage.
handleDragEnd(over) ==
    /\ activeCategory # ""
    /\ over = "" \/ Includes(orderedCategories(transactions, activeTab, categoryOrder), over)
    /\ activeCategory' = ""
    /\ LET shown == orderedCategories(transactions, activeTab, categoryOrder)
           order == arrayMove(shown, IndexOf(shown, activeCategory),
                              IndexOf(shown, over))
       IN  IF over = "" \/ activeCategory = over
           THEN UNCHANGED <<categoryOrder, orderStore, catHist>>
           ELSE /\ categoryOrder' = order
                /\ orderStore' = [present |-> TRUE, val |-> order]
                /\ catHist' = [dropped |-> TRUE, active |-> activeCategory,
                               over |-> over, remounted |-> FALSE]
    /\ UNCHANGED activeTab
    /\ UNCHANGED <<dashVars, hookVars, aggVars, histVars>>
    /\ UNCHANGED <<tokens, filterVars, crudVars, showLimitModal, lastAction>>

\* CategoryView mounts (again): the dashboard renders it in place of the
\* spinner after every fetch, and after a reload of the page.
MountCategoryView ==
    /\ activeTab' = "expense"
    /\ activeCategory' = ""
    /\ categoryOrder' = LoadOrder(orderStore)
    /\ catHist' = IF catHist.dropped THEN [catHist EXCEPT !.remounted = TRUE]
                  ELSE catHist
    /\ UNCHANGED orderStore
    /\ UNCHANGED <<dashVars, hookVars, aggVars, histVars>>
    /\ UNCHANGED <<tokens, filterVars, crudVars, showLimitModal, lastAction>>

----------------------------------------------------------------------------
(* Dashboard: the state a mount initialises *)

TxFull(id, ty, am, cat, desc, d) ==
    [id |-> id, type |-> ty, amount |-> am, category |-> cat,
     description |-> desc, date |-> d]

\* editTarget = null
NullTx == TxFull(0, "", <<>>, "", "", 0)

\* FormErrors: the message under each key, "" where the key is absent
ErrKeys == {"non_field", "amount", "detail"}
NoErrors == [k \in ErrKeys |-> ""]

\* sessionStorage
SessionKeys == {"clarity:view", "clarity:filterType", "clarity:filterCategory",
                "clarity:filterFrom", "clarity:filterTo"}
FilterKeys == SessionKeys \ {"clarity:view"}

Absent   == [present |-> FALSE, val |-> ""]
Entry(v) == [present |-> TRUE, val |-> v]
NoSession == [k \in SessionKeys |-> Absent]

\* sessionStorage.getItem(k) ?? dflt
GetOr_Default(store, k, dflt) == dflt
GetOr(store, k, dflt) == IF store[k].present THEN store[k].val ELSE dflt

\* The state variable each key persists
StateOf(k) ==
    CASE k = "clarity:view"           -> view
      [] k = "clarity:filterType"     -> filterType
      [] k = "clarity:filterCategory" -> filterCategory
      [] k = "clarity:filterFrom"     -> filterFrom
      [] k = "clarity:filterTo"       -> filterTo

CurSync == [k \in SessionKeys |-> StateOf(k)]

\* No effect has run since the mount.
NotMounted == [k \in SessionKeys |-> "?"]

\* The effects of the last render have run.
Synced == effSync = CurSync

NoDrop == [dropped |-> FALSE, active |-> "", over |-> "", remounted |-> FALSE]

\* EMPTY_FORM; its date is the day the module was loaded
EMPTY_FORM(td) ==
    [type |-> "expense", amount |-> <<>>, category |-> "other",
     description |-> "", date |-> td]

(* The dashboard mounts with session storage store: every useState         *)
(* initialiser runs, the milestone effect runs with net = 0 and returns,   *)
(* the persistence and fetch effects are still to run.  Requests of an     *)
(* earlier page are gone with it.                                          *)
Mount(store) ==
    /\ page' = "dashboard"
    /\ transactions' = <<>>
    /\ loading' = TRUE
    /\ inflight' = <<>>
    /\ celebrated' = <<>>
    /\ toastMilestone' = 0
    /\ prevNetRef' = Num(0)
    /\ timers' = {}
    /\ cleanup' = 0
    /\ effDeps' = [net |-> Num(0), celebrated |-> <<>>]
    /\ limits' = LoadLimits(limitsStore)
    /\ agg' = NoAgg
    /\ activeTab' = "expense"
    /\ activeCategory' = ""
    /\ categoryOrder' = LoadOrder(orderStore)
    /\ events' = <<>>
    /\ obsLog' = <<[net |-> Num(0), fired |-> <<>>]>>
    /\ shownFrom' = "none"
    /\ view' = GetOr(store, "clarity:view", "table")
    /\ filterType' = GetOr(store, "clarity:filterType", "")
    /\ filterCategory' = GetOr(store, "clarity:filterCategory", "")
    /\ filterFrom' = GetOr(store, "clarity:filterFrom", "")
    /\ filterTo' = GetOr(store, "clarity:filterTo", "")
    /\ sessionStorage' = store
    /\ effSync' = NotMounted
    /\ showModal' = FALSE
    /\ editTarget' = NullTx
    /\ form' = EMPTY_FORM(today)
    /\ formErrors' = NoErrors
    /\ saving' = FALSE
    /\ step' = 0
    /\ deleteId' = 0
    /\ requests' = <<>>
    /\ alerted' = FALSE
    /\ showLimitModal' = FALSE
    /\ catHist' = IF catHist.dropped THEN [catHist EXCEPT !.remounted = TRUE]
                  ELSE catHist
    /\ UNCHANGED <<today, limitsStore, orderStore>>

\* The page is reloaded within the session.
Reload ==
    /\ page = "dashboard"
    /\ Synced
    /\ Mount(sessionStorage)
    /\ lastAction' = Did("reload")
    /\ UNCHANGED tokens

\* The session ends and the dashboard is opened in a new one.
NewSession ==
    /\ page = "dashboard"
    /\ Synced
    /\ Mount(NoSession)
    /\ lastAction' = Did("newSession")
    /\ UNCHANGED tokens

----------------------------------------------------------------------------
(* Dashboard: view mode, filters and their persistence *)

\* The effects of lines 500-504 and 520, run after a render: each writes
\* its key when its value changed (all of them after the mount), and the
\* fetch effect calls fetchTransactions when a filter changed.
FlushEffects ==
    LET changed == {k \in SessionKeys : effSync[k] # StateOf(k)}
    IN  /\ page = "dashboard"
        /\ changed # {}
        /\ sessionStorage' = [k \in SessionKeys |->
                                 IF k \in changed THEN Entry(StateOf(k))
                                 ELSE sessionStorage[k]]
        /\ effSync' = CurSync
        /\ IF changed \cap FilterKeys # {}
           THEN /\ loading' = TRUE
                /\ inflight' = Append([i \in 1..Len(inflight) |-> [latest |-> FALSE]],
                                      [latest |-> TRUE])
                /\ shownFrom' = IF shownFrom = "none" THEN "none" ELSE "stale"
           ELSE UNCHANGED <<loading, inflight, shownFrom>>
        /\ UNCHANGED <<page, transactions>>
        /\ UNCHANGED <<view, filterType, filterCategory, filterFrom, filterTo>>
        /\ UNCHANGED <<hookVars, aggVars, catVars, events, obsLog>>
        /\ UNCHANGED <<tokens, crudVars, showLimitModal, lastAction, catHist>>

\* The view toggle: setView(v)
SetView(v) ==
    /\ page = "dashboard"
    /\ Synced
    /\ NoOverlay
    /\ v # view
    /\ view' = v
    /\ lastAction' = Did("setView")
    /\ UNCHANGED <<filterType, filterCategory, filterFrom, filterTo,
                   sessionStorage, effSync>>
    /\ UNCHANGED <<dashVars, hookVars, aggVars, catVars, histVars>>
    /\ UNCHANGED <<tokens, crudVars, showLimitModal, catHist>>

\* onChange of the filter control of key k: its setter is called with v
SetFilter(k, v) ==
    /\ page = "dashboard"
    /\ Synced
    /\ NoOverlay
    /\ Len(inflight) + Len(requests) < MaxInflight
    /\ k \in FilterKeys
    /\ v # StateOf(k)
    /\ filterType' = IF k = "clarity:filterType" THEN v ELSE filterType
    /\ filterCategory' = IF k = "clarity:filterCategory" THEN v ELSE filterCategory
    /\ filterFrom' = IF k = "clarity:filterFrom" THEN v ELSE filterFrom
    /\ filterTo' = IF k = "clarity:filterTo" THEN v ELSE filterTo
    /\ lastAction' = Did("setFilter")
    /\ UNCHANGED <<view, sessionStorage, effSync>>
    /\ UNCHANGED <<dashVars, hookVars, aggVars, catVars, histVars>>
    /\ UNCHANGED <<tokens, crudVars, showLimitModal, catHist>>

\* Clear filters, rendered when a filter is set: the four setters are
\* called with "" and the four keys are removed.
ClearFilters ==
    /\ page = "dashboard"
    /\ Synced
    /\ NoOverlay
    /\ Len(inflight) + Len(requests) < MaxInflight
    /\ filterType # "" \/ filterCategory # "" \/ filterFrom # "" \/ filterTo # ""
    /\ filterType' = ""
    /\ filterCategory' = ""
    /\ filterFrom' = ""
    /\ filterTo' = ""
    /\ sessionStorage' = [k \in SessionKeys |->
                             IF k \in FilterKeys THEN Absent ELSE sessionStorage[k]]
    /\ lastAction' = Did("clearFilters")
    /\ UNCHANGED <<view, effSync>>
    /\ UNCHANGED <<dashVars, hookVars, aggVars, catVars, histVars>>
    /\ UNCHANGED <<tokens, crudVars, showLimitModal, catHist>>

----------------------------------------------------------------------------
(* Logout and login *)

LoggedIn  == [access |-> TRUE, refresh |-> TRUE]
LoggedOut == [access |-> FALSE, refresh |-> FALSE]

\* handleLogout: localStorage.removeItem("access"), removeItem("refresh"),
\* navigate("/login").  Leaving the route unmounts the dashboard, which runs
\* the milestone effect's cleanup.
LogoutTokens_AccessOnly(t) == [t EXCEPT !.access = FALSE]
LogoutTokens(t) == [access |-> FALSE, refresh |-> FALSE]

handleLogout ==
    /\ page = "dashboard"
    /\ NoOverlay
    /\ tokens' = LogoutTokens(tokens)
    /\ page' = "login"
    /\ timers' = IF cleanup = 0 THEN timers ELSE timers \ {cleanup}
    /\ lastAction' = Did("logout")
    /\ UNCHANGED <<transactions, loading, inflight>>
    /\ UNCHANGED <<celebrated, toastMilestone, prevNetRef, cleanup, effDeps>>
    /\ UNCHANGED <<aggVars, catVars, histVars>>
    /\ UNCHANGED <<filterVars, crudVars, showLimitModal, catHist>>

\* Login.handleLogin with a successful response: both tokens are stored and
\* navigate("/dashboard") mounts the dashboard.
handleLogin ==
    /\ page = "login"
    /\ tokens' = LoggedIn
    /\ Mount(sessionStorage)
    /\ lastAction' = Did("login")

----------------------------------------------------------------------------
(* Dashboard: the transaction form and the delete dialog *)

\* The form is opened (again): the saves still awaiting their response were
\* sent from an earlier opening of it.
Reopened(reqs) ==
    [i \in 1..Len(reqs) |->
        IF reqs[i].kind = "delete" THEN reqs[i] ELSE [reqs[i] EXCEPT !.reopened = TRUE]]

\* + Add Transaction; StepModal mounts at step 0
openAdd ==
    /\ page = "dashboard"
    /\ NoOverlay
    /\ editTarget' = NullTx
    /\ form' = EMPTY_FORM(today)
    /\ formErrors' = NoErrors
    /\ showModal' = TRUE
    /\ step' = 0
    /\ requests' = Reopened(requests)
    /\ UNCHANGED <<saving, deleteId, alerted>>
    /\ UNCHANGED <<dashVars, hookVars, aggVars, catVars, histVars>>
    /\ UNCHANGED <<tokens, filterVars, showLimitModal, lastAction, catHist>>

\* Edit, on a row of the displayed list
openEdit(tx) ==
    /\ page = "dashboard"
    /\ NoOverlay
    /\ ~loading
    /\ Includes(transactions, tx)
    /\ editTarget' = tx
    /\ form' = [type |-> tx.type, amount |-> tx.amount, category |-> tx.category,
                description |-> tx.description, date |-> tx.date]
    /\ formErrors' = NoErrors
    /\ showModal' = TRUE
    /\ step' = 0
    /\ requests' = Reopened(requests)
    /\ UNCHANGED <<saving, deleteId, alerted>>
    /\ UNCHANGED <<dashVars, hookVars, aggVars, catVars, histVars>>
    /\ UNCHANGED <<tokens, filterVars, showLimitModal, lastAction, catHist>>

\* STEP_META.length - 1
LastStep == 2

\* The step that shows the control of a field
StepOf(field) ==
    CASE field \in {"type", "amount"} -> 0
      [] field = "category" -> 1
      [] field \in {"description", "date"} -> 2

\* A control of the form: setForm(f => ({ ...f, [field]: value }))
EditForm(field, value) ==
    /\ page = "dashboard"
    /\ showModal
    /\ step = StepOf(field)
    /\ form[field] # value
    /\ form' = [form EXCEPT ![field] = value]
    /\ UNCHANGED <<showModal, editTarget, formErrors, saving, step, deleteId, requests, alerted>>
    /\ UNCHANGED <<dashVars, hookVars, aggVars, catVars, histVars>>
    /\ UNCHANGED <<tokens, filterVars, showLimitModal, lastAction, catHist>>

\* onClose of the form
CloseModal ==
    /\ page = "dashboard"
    /\ showModal
    /\ showModal' = FALSE
    /\ step' = 0
    /\ UNCHANGED <<editTarget, form, formErrors, saving, deleteId, requests, alerted>>
    /\ UNCHANGED <<dashVars, hookVars, aggVars, catVars, histVars>>
    /\ UNCHANGED <<tokens, filterVars, showLimitModal, lastAction, catHist>>

\* goNext stops at step 0 on !form.amount || parseFloat(form.amount) <= 0
\* and at step 1 on !form.category.
StepBlocked_NoAmountCheck(st, f) == st = 1 /\ f.category = ""
StepBlocked(st, f) ==
    \/ st = 0 /\ (f.amount = <<>> \/ NLe(ParseFloat(f.amount), Num(0)))
    \/ st = 1 /\ f.category = ""

\* goNext, by the Next button or the Enter key, both in reach while
\* step < 2: a stopped step shows its message and stays.
goNext ==
    /\ page = "dashboard"
    /\ showModal
    /\ step < LastStep
    /\ ~StepBlocked(step, form)
    /\ step' = step + 1
    /\ UNCHANGED <<showModal, editTarget, form, formErrors, saving, deleteId, requests, alerted>>
    /\ UNCHANGED <<dashVars, hookVars, aggVars, catVars, histVars>>
    /\ UNCHANGED <<tokens, filterVars, showLimitModal, lastAction, catHist>>

\* goBack: the left button of the footer is Back on the steps after the
\* first and Cancel on the first.
goBack ==
    /\ page = "dashboard"
    /\ showModal
    /\ step > 0
    /\ step' = step - 1
    /\ UNCHANGED <<showModal, editTarget, form, formErrors, saving, deleteId, requests, alerted>>
    /\ UNCHANGED <<dashVars, hookVars, aggVars, catVars, histVars>>
    /\ UNCHANGED <<tokens, filterVars, showLimitModal, lastAction, catHist>>

\* handleSave up to its await.  The button is on the last step of the form
\* and is disabled while saving.
handleSave ==
    /\ page = "dashboard"
    /\ showModal
    /\ step = LastStep
    /\ ~saving
    /\ Len(inflight) + Len(requests) < MaxInflight
    /\ saving' = TRUE
    /\ formErrors' = NoErrors
    /\ requests' = Append(requests,
                          [kind |-> IF editTarget # NullTx THEN "put" ELSE "post",
                           id |-> editTarget.id, reopened |-> FALSE])
    /\ UNCHANGED <<showModal, editTarget, form, step, deleteId, alerted>>
    /\ UNCHANGED <<dashVars, hookVars, aggVars, catVars, histVars>>
    /\ UNCHANGED <<tokens, filterVars, showLimitModal, lastAction, catHist>>

\* fetchTransactions up to its await, on the requests awaiting a response
IssueFetch(infl) ==
    Append([i \in 1..Len(infl) |-> [latest |-> FALSE]], [latest |-> TRUE])

\* What follows a successful save or delete: void fetchTransactions()
AfterSuccess_NoFetch(infl) == infl
AfterSuccess(infl) == IssueFetch(infl)

\* The request of handleSave succeeds: setShowModal(false);
\* void fetchTransactions(); finally setSaving(false).
SaveOk(i) ==
    /\ page = "dashboard"
    /\ i \in 1..Len(requests)
    /\ requests[i].kind \in {"post", "put"}
    /\ requests' = RemoveAt(requests, i)
    /\ showModal' = FALSE
    /\ step' = 0
    /\ saving' = FALSE
    /\ inflight' = AfterSuccess(inflight)
    /\ loading' = IF inflight' # inflight THEN TRUE ELSE loading
    /\ shownFrom' = IF inflight' = inflight \/ shownFrom = "none" THEN shownFrom
                    ELSE "stale"
    /\ lastAction' = Did("saveOk")
    /\ UNCHANGED <<page, transactions>>
    /\ UNCHANGED <<editTarget, form, formErrors, deleteId, alerted>>
    /\ UNCHANGED <<hookVars, aggVars, catVars, events, obsLog>>
    /\ UNCHANGED <<tokens, filterVars, showLimitModal, catHist>>

\* The responses of a failed request: the kind of failure and the data of
\* the response, if there is one.
Failure(err, hasData, data) == [err |-> err, hasData |-> hasData, data |-> data]

Failures ==
    { Failure("validation", TRUE,
              [NoErrors EXCEPT !["amount"] = "A valid number is required."]),
      Failure("auth", TRUE,
              [NoErrors EXCEPT !["detail"] = "Authentication credentials were not provided."]),
      Failure("server", TRUE, [NoErrors EXCEPT !["detail"] = "Server Error (500)"]),
      Failure("network", FALSE, NoErrors) }

\* error.response?.data ?? { non_field: "Something went wrong." }
StoredErrors_Generic(resp) == [NoErrors EXCEPT !["non_field"] = "Something went wrong."]
StoredErrors(resp) ==
    IF resp.hasData THEN resp.data
    ELSE [NoErrors EXCEPT !["non_field"] = "Something went wrong."]

\* The request of handleSave fails with resp: catch { setFormErrors(...) }
\* finally setSaving(false).
SaveFail(i, resp) ==
    /\ page = "dashboard"
    /\ i \in 1..Len(requests)
    /\ requests[i].kind \in {"post", "put"}
    /\ requests' = RemoveAt(requests, i)
    /\ formErrors' = StoredErrors(resp)
    /\ saving' = FALSE
    /\ lastAction' = Failed("saveFail", resp.err)
    /\ UNCHANGED <<showModal, editTarget, form, step, deleteId, alerted>>
    /\ UNCHANGED <<dashVars, hookVars, aggVars, catVars, histVars>>
    /\ UNCHANGED <<tokens, filterVars, showLimitModal, catHist>>

\* Delete, on a row of the displayed list: setDeleteId(tx.id)
AskDelete(id) ==
    /\ page = "dashboard"
    /\ ~loading
    /\ NoOverlay
    /\ \E k \in 1..Len(transactions) : transactions[k].id = id
    /\ deleteId' = id
    /\ UNCHANGED <<showModal, editTarget, form, formErrors, saving, step, requests, alerted>>
    /\ UNCHANGED <<dashVars, hookVars, aggVars, catVars, histVars>>
    /\ UNCHANGED <<tokens, filterVars, showLimitModal, lastAction, catHist>>

\* Cancel, or the overlay, of the delete dialog
CancelDelete ==
    /\ page = "dashboard"
    /\ deleteId # 0
    /\ deleteId' = 0
    /\ UNCHANGED <<showModal, editTarget, form, formErrors, saving, step, requests, alerted>>
    /\ UNCHANGED <<dashVars, hookVars, aggVars, catVars, histVars>>
    /\ UNCHANGED <<tokens, filterVars, showLimitModal, lastAction, catHist>>

\* Yes, Delete: handleDelete(deleteId) up to its await
handleDelete ==
    /\ page = "dashboard"
    /\ deleteId # 0
    /\ Len(inflight) + Len(requests) < MaxInflight
    /\ requests' = Append(requests, [kind |-> "delete", id |-> deleteId,
                                      reopened |-> FALSE])
    /\ UNCHANGED <<showModal, editTarget, form, formErrors, saving, step, deleteId, alerted>>
    /\ UNCHANGED <<dashVars, hookVars, aggVars, catVars, histVars>>
    /\ UNCHANGED <<tokens, filterVars, showLimitModal, lastAction, catHist>>

\* The request of handleDelete succeeds: setDeleteId(null);
\* void fetchTransactions().
DeleteOk(i) ==
    /\ page = "dashboard"
    /\ i \in 1..Len(requests)
    /\ requests[i].kind = "delete"
    /\ requests' = RemoveAt(requests, i)
    /\ deleteId' = 0
    /\ inflight' = AfterSuccess(inflight)
    /\ loading' = IF inflight' # inflight THEN TRUE ELSE loading
    /\ shownFrom' = IF inflight' = inflight \/ shownFrom = "none" THEN shownFrom
                    ELSE "stale"
    /\ lastAction' = Did("deleteOk")
    /\ UNCHANGED <<page, transactions>>
    /\ UNCHANGED <<showModal, editTarget, form, formErrors, saving, step, alerted>>
    /\ UNCHANGED <<hookVars, aggVars, catVars, events, obsLog>>
    /\ UNCHANGED <<tokens, filterVars, showLimitModal, catHist>>

\* catch { alert("Failed to delete.") }: whether the notice is raised, and
\* the requests awaiting a response afterwards
DeleteCatch_Refetch(infl) == [alert |-> TRUE, inflight |-> IssueFetch(infl)]
DeleteCatch(infl) == [alert |-> TRUE, inflight |-> infl]

\* The request of handleDelete fails with resp.
DeleteFail(i, resp) ==
    /\ page = "dashboard"
    /\ i \in 1..Len(requests)
    /\ requests[i].kind = "delete"
    /\ requests' = RemoveAt(requests, i)
    /\ alerted' = (alerted \/ DeleteCatch(inflight).alert)
    /\ inflight' = DeleteCatch(inflight).inflight
    /\ loading' = IF inflight' # inflight THEN TRUE ELSE loading
    /\ lastAction' = Failed("deleteFail", resp.err)
    /\ UNCHANGED <<page, transactions>>
    /\ UNCHANGED <<showModal, editTarget, form, formErrors, saving, step, deleteId>>
    /\ UNCHANGED <<hookVars, aggVars, catVars, histVars>>
    /\ UNCHANGED <<tokens, filterVars, showLimitModal, catHist>>

----------------------------------------------------------------------------
(* Responses of the backend used as inputs *)

A100 == <<"1", "0", "0", ".", "0", "0">>
A150 == <<"1", "5", "0", ".", "0", "0">>
A400 == <<"4", "0", "0">>
A600 == <<"6", "0", "0", ".", "0", "0">>

Today0 == 10

\* Lists whose net balances are 0, 150, 300, 400 and 600.
MilestoneSnapshots ==
    { <<>>,
      <<Tx("income", A150, "salary", Today0)>>,
      <<Tx("income", A400, "salary", Today0), Tx("expense", A100, "food", Today0)>>,
      <<Tx("income", A400, "salary", Today0)>>,
      <<Tx("income", A600, "salary", Today0)>> }

DashSnapshots ==
    { <<>>, <<Tx("income", A150, "salary", Today0)>> }

A85  == <<"8", "5", ".", "0", "0">>
ABad == <<"a", "b", "c">>
A250 == <<"2", "5", "0">>
Blank == <<>>

RECURSIVE SeqsUpTo(_, _)
SeqsUpTo(S, n) ==
    IF n = 0 THEN {<<>>}
    ELSE LET shorter == SeqsUpTo(S, n - 1)
         IN  shorter \cup {Append(q, x) : q \in shorter, x \in S}

\* Inputs of the aggregates: both types, a malformed amount, and dates at
\* and around both ends of the weekly window.
AggTx ==
    {Tx(ty, am, IF ty = "income" THEN "salary" ELSE "food", d) :
        ty \in {"income", "expense"},
        am \in {A85, A100, ABad},
        d \in {Today0 - 7, Today0 - 6, Today0, Today0 + 1}}

\* Inputs of the limit evaluator: expenses of 0, 85, 100, 185 and 200 today,
\* and 85 today after 100 six days ago.
LimitSnapshots ==
    { <<>>,
      <<Tx("expense", A85, "food", Today0)>>,
      <<Tx("expense", A100, "food", Today0), Tx("income", A400, "salary", Today0)>>,
      <<Tx("expense", A85, "food", Today0), Tx("expense", A100, "food", Today0)>>,
      <<Tx("expense", A100, "food", Today0), Tx("expense", A100, "food", Today0)>>,
      <<Tx("expense", A100, "food", Today0 - 6), Tx("expense", A85, "food", Today0)>> }

AMinus5 == <<"-", "5">>

LimitTexts == {Blank, A100, A250, AMinus5}

----------------------------------------------------------------------------
(* The dashboard after its first render and mount effects: the list is     *)
(* empty, the mount effect has issued the first fetch, and the milestone   *)
(* effect has run once with net = 0.                                       *)

\* The rest of the state after a mount in a new session and its effects.
InitRest(td) ==
    /\ view = "table"
    /\ filterType = ""
    /\ filterCategory = ""
    /\ filterFrom = ""
    /\ filterTo = ""
    /\ sessionStorage = [k \in SessionKeys |-> Entry(StateOf(k))]
    /\ effSync = CurSync
    /\ showModal = FALSE
    /\ editTarget = NullTx
    /\ form = EMPTY_FORM(td)
    /\ formErrors = NoErrors
    /\ saving = FALSE
    /\ step = 0
    /\ deleteId = 0
    /\ requests = <<>>
    /\ alerted = FALSE
    /\ showLimitModal = FALSE
    /\ tokens = LoggedIn
    /\ lastAction = Did("mount")
    /\ catHist = NoDrop

InitDash ==
    /\ InitRest(Today0)
    /\ page = "dashboard"
    /\ transactions = <<>>
    /\ loading = TRUE
    /\ inflight = <<[latest |-> TRUE]>>
    /\ celebrated = <<>>
    /\ toastMilestone = 0
    /\ prevNetRef = Num(0)
    /\ timers = {}
    /\ cleanup = 0
    /\ effDeps = [net |-> Num(0), celebrated |-> <<>>]
    /\ today = Today0
    /\ limits = DefaultLimits
    /\ limitsStore = NoStore
    /\ agg = NoAgg
    /\ activeTab = "expense"
    /\ activeCategory = ""
    /\ categoryOrder = <<>>
    /\ orderStore = NoStore
    /\ events = <<>>
    /\ obsLog = <<[net |-> Num(0), fired |-> <<>>]>>
    /\ shownFrom = "none"

\* The dashboard with overlapping fetches.
Next ==
    \/ FetchStart(MaxInflight)
    \/ \E i \in 1..MaxInflight, d \in DashSnapshots : FetchResolve(i, d)
    \/ \E i \in 1..MaxInflight : FetchReject(i)
    \/ RunEffect
    \/ \E t \in timers : TimerFire(t)
    \/ DismissToast

Spec == InitDash /\ [][Next]_vars

\* The dashboard with one fetch at a time, over the milestone inputs.
NextM ==
    \/ FetchStart(1)
    \/ \E d \in MilestoneSnapshots : FetchResolve(1, d)
    \/ FetchReject(1)
    \/ RunEffect
    \/ \E t \in timers : TimerFire(t)
    \/ DismissToast

SpecM == InitDash /\ [][NextM]_vars

\* React runs a pending effect; a pending timeout fires.
FairSpecM ==
    /\ SpecM
    /\ WF_vars(RunEffect)
    /\ WF_vars(\E t \in timers : TimerFire(t))

----------------------------------------------------------------------------
(* Claims about the fetch and the milestone hook *)

Milestones == {SAVING_MILESTONES[i] : i \in 1..Len(SAVING_MILESTONES)}

NoDup(seq) == \A i, j \in 1..Len(seq) : i # j => seq[i] # seq[j]

Min(S) == CHOOSE x \in S : \A y \in S : x <= y

LogNets == [i \in 1..Len(obsLog) |-> obsLog[i].net]

\* The effect has run for the values now rendered.
Settled == CurDeps = effDeps

\* C1: last request wins.  Once no fetch is awaiting its response, the
\* displayed list is the response of the most recently issued fetch: a
\* response of an earlier fetch has not overwritten it.
C1_LastRequestWins ==
    (page = "dashboard" /\ inflight = <<>> /\ shownFrom # "none")
        => shownFrom = "latest"

\* C2: over any sequence of net observations a threshold enters the
\* celebrated list at most once, never leaves it, and has at most one event
\* emitted for it, also when net dips below it and rises above it again.
C2_OncePerThreshold ==
    [][ /\ NoDup(celebrated')
        /\ NoDup(events')
        /\ \A m \in Milestones : Includes(celebrated, m) => Includes(celebrated', m)
        /\ \A m \in Milestones : Includes(events, m) => Includes(events', m) ]_vars

\* Net rose to 150 (firing 100), fell to 0 and rose to 150 again.
C2_Witness ==
    /\ Len(obsLog) >= 4
    /\ SubSeq(LogNets, 1, 4) = <<Units(0), Units(150), Units(0), Units(150)>>
    /\ obsLog[2].fired = <<100>>
    /\ Settled
    /\ celebrated = <<100>>

\* C3: on each run of the effect, with previousNet the net value the effect
\* saw before, the lowest threshold m not yet celebrated with
\* previousNet < m <= net is appended to the celebrated list and exactly one
\* event is emitted, for it; nothing else is marked or emitted, and a run
\* that sees no new net value (the re-run after the list changed) emits
\* nothing.
C3_LowestCrossedOnly ==
    [][ effDeps' # effDeps =>
          LET n    == net(transactions)
              prev == obsLog[Len(obsLog)].net
              due  == {m \in Milestones :
                          /\ ~Includes(celebrated, m)
                          /\ NLt(prev, Units(m))
                          /\ NLe(Units(m), n)}
          IN  IF due = {}
              THEN celebrated' = celebrated /\ events' = events
              ELSE /\ celebrated' = Append(celebrated, Min(due))
                   /\ events' = Append(events, Min(due))
                   /\ toastMilestone' = Min(due) ]_vars

\* Net jumped from 0 to 600, over 100, 250 and 500: only 100 fired.
C3_Witness ==
    /\ Len(obsLog) = 2
    /\ LogNets = <<Units(0), Units(600)>>
    /\ obsLog[2].fired = <<100>>
    /\ Settled
    /\ celebrated = <<100>>
    /\ events = <<100>>

\* C4: a milestone exceeded before the detector started observing does not
\* fire: no event fires at a net value that is not above the one before it,
\* and the first snapshot fetched after the mount fires none.
C4_NoRetroactiveFire ==
    /\ \A k \in 2..Len(obsLog) :
           NLe(obsLog[k].net, obsLog[k - 1].net) => obsLog[k].fired = <<>>
    /\ Len(obsLog) >= 2 => obsLog[2].fired = <<>>

\* C5: an active toast is eventually cleared (by its timer, when the user
\* does not dismiss it).
C5_ToastAutoDismissed == (toastMilestone # 0) ~> (toastMilestone = 0)

Scenario == <<0, 150, 400, 300, 600>>
ScenarioFires == <<0, 100, 250, 0, 500>>

\* C6: over the observations 0, 150, 400, 300, 600 the events are 100 at
\* 150, 250 at 400, none at 300 and 500 at 600.
C6_Scenario ==
    \A k \in 1..Len(obsLog) :
        (k <= Len(Scenario) /\ \A j \in 1..k : obsLog[j].net = Units(Scenario[j]))
            => obsLog[k].fired =
                   (IF ScenarioFires[k] = 0 THEN <<>> ELSE <<ScenarioFires[k]>>)

C6_Witness ==
    /\ Len(obsLog) = Len(Scenario)
    /\ \A j \in 1..Len(Scenario) : obsLog[j].net = Units(Scenario[j])
    /\ Settled
    /\ events = <<100, 250, 500>>

----------------------------------------------------------------------------
(* The derived values as functions of their inputs *)

\* The state of the dashboard showing list ts on day td, nothing else begun.
InitShowing(ts, td, store, ostore) ==
    /\ InitRest(td)
    /\ page = "dashboard"
    /\ transactions = ts
    /\ loading = FALSE
    /\ inflight = <<>>
    /\ celebrated = <<>>
    /\ toastMilestone = 0
    /\ prevNetRef = Num(0)
    /\ timers = {}
    /\ cleanup = 0
    /\ effDeps = [net |-> Num(0), celebrated |-> <<>>]
    /\ today = td
    /\ limitsStore = store
    /\ limits = LoadLimits(store)
    /\ agg = NoAgg
    /\ activeTab = "expense"
    /\ activeCategory = ""
    /\ orderStore = ostore
    /\ categoryOrder = LoadOrder(ostore)
    /\ events = <<>>
    /\ obsLog = <<[net |-> Num(0), fired |-> <<>>]>>
    /\ shownFrom = "latest"

InitAgg ==
    \E ts \in SeqsUpTo(AggTx, MaxTx), td \in {Today0, Today0 + 1} :
        InitShowing(ts, td, NoStore, NoStore)

NextAgg == Render

SpecAgg == InitAgg /\ [][NextAgg]_vars

InitLimit ==
    \E ts \in LimitSnapshots, td \in {Today0, Today0 + 1} :
        InitShowing(ts, td, NoStore, NoStore)

NextLimit ==
    \/ Render
    \/ OpenLimits
    \/ \E d \in LimitTexts, w \in LimitTexts : SaveLimits(d, w)

SpecLimit == InitLimit /\ [][NextLimit]_vars

----------------------------------------------------------------------------
(* The dashboard opened in a new session, its filters and view mode *)

\* The dashboard as it mounts with nothing persisted, before its effects.
InitOpen ==
    /\ page = "dashboard"
    /\ transactions = <<>>
    /\ loading = TRUE
    /\ inflight = <<>>
    /\ celebrated = <<>>
    /\ toastMilestone = 0
    /\ prevNetRef = Num(0)
    /\ timers = {}
    /\ cleanup = 0
    /\ effDeps = [net |-> Num(0), celebrated |-> <<>>]
    /\ today = Today0
    /\ limitsStore = NoStore
    /\ limits = LoadLimits(NoStore)
    /\ agg = NoAgg
    /\ activeTab = "expense"
    /\ activeCategory = ""
    /\ orderStore = NoStore
    /\ categoryOrder = LoadOrder(NoStore)
    /\ events = <<>>
    /\ obsLog = <<[net |-> Num(0), fired |-> <<>>]>>
    /\ shownFrom = "none"
    /\ sessionStorage = NoSession
    /\ view = GetOr(NoSession, "clarity:view", "table")
    /\ filterType = GetOr(NoSession, "clarity:filterType", "")
    /\ filterCategory = GetOr(NoSession, "clarity:filterCategory", "")
    /\ filterFrom = GetOr(NoSession, "clarity:filterFrom", "")
    /\ filterTo = GetOr(NoSession, "clarity:filterTo", "")
    /\ effSync = NotMounted
    /\ showModal = FALSE
    /\ editTarget = NullTx
    /\ form = EMPTY_FORM(Today0)
    /\ formErrors = NoErrors
    /\ saving = FALSE
    /\ step = 0
    /\ deleteId = 0
    /\ requests = <<>>
    /\ alerted = FALSE
    /\ showLimitModal = FALSE
    /\ tokens = LoggedIn
    /\ lastAction = Did("mount")
    /\ catHist = NoDrop

\* The values the filter controls offer, one for each beside "no filter".
FilterValues(k) ==
    CASE k = "clarity:filterType"     -> {"", "income"}
      [] k = "clarity:filterCategory" -> {"", "food"}
      [] k = "clarity:filterFrom"     -> {"", "2024-01-01"}
      [] k = "clarity:filterTo"       -> {"", "2024-01-31"}

NextFilter ==
    \/ \E v \in {"table", "category"} : SetView(v)
    \/ \E k \in FilterKeys : \E v \in FilterValues(k) : SetFilter(k, v)
    \/ ClearFilters
    \/ FlushEffects
    \/ Reload
    \/ NewSession
    \/ \E i \in 1..MaxInflight : FetchResolve(i, <<>>)

SpecFilter == InitOpen /\ [][NextFilter]_vars

----------------------------------------------------------------------------
(* Claims about the view and filter store *)

FiltersEmpty ==
    filterType = "" /\ filterCategory = "" /\ filterFrom = "" /\ filterTo = ""

\* C13: after Clear filters, once the persistence effects of the change
\* have run, the four filter fields are empty and none of the four filter
\* keys has an entry in session storage.
C13_ClearRemovesEntries ==
    (lastAction.op = "clearFilters" /\ Synced) =>
        /\ FiltersEmpty
        /\ \A k \in FilterKeys : ~sessionStorage[k].present

\* C14: a reload within the session restores the view mode and the four
\* filter values held before it, after any sequence of view changes, filter
\* changes and Clear filters; with nothing persisted the dashboard starts in
\* table mode with the four filters empty.
C14_ReloadRestores ==
    [][ /\ Reload =>
               /\ view' = view
               /\ filterType' = filterType
               /\ filterCategory' = filterCategory
               /\ filterFrom' = filterFrom
               /\ filterTo' = filterTo
        /\ NewSession =>
               /\ view' = "table"
               /\ filterType' = ""
               /\ filterCategory' = ""
               /\ filterFrom' = ""
               /\ filterTo' = "" ]_vars

\* Reloaded in category mode with two filters set and two empty.
C14_Witness ==
    /\ lastAction.op = "reload"
    /\ view = "category"
    /\ filterType = "income"
    /\ filterFrom = "2024-01-01"
    /\ filterCategory = ""
    /\ filterTo = ""
    /\ ~sessionStorage["clarity:filterTo"].present

----------------------------------------------------------------------------
(* The dashboard with its create, update and delete requests *)

T1 == TxFull(1, "expense", A100, "food", "lunch", Today0)
T2 == TxFull(2, "income", A150, "salary", "", Today0)

CrudSnapshots == { <<>>, <<T1, T2>> }

\* What the user enters in the form: a field and its new value.
FormEdits ==
    { <<"amount", A85>>, <<"description", "rent">> }

DeleteFailures == {f \in Failures : f.err # "validation"}

NextCrud ==
    \/ openAdd
    \/ openEdit(T1)
    \/ \E e \in FormEdits : EditForm(e[1], e[2])
    \/ goNext
    \/ goBack
    \/ CloseModal
    \/ handleSave
    \/ \E i \in 1..MaxInflight : SaveOk(i)
    \/ \E i \in 1..MaxInflight, resp \in Failures : SaveFail(i, resp)
    \/ AskDelete(T2.id)
    \/ CancelDelete
    \/ handleDelete
    \/ \E i \in 1..MaxInflight : DeleteOk(i)
    \/ \E i \in 1..MaxInflight, resp \in DeleteFailures : DeleteFail(i, resp)
    \/ \E i \in 1..MaxInflight, d \in CrudSnapshots : FetchResolve(i, d)
    \/ \E i \in 1..MaxInflight : FetchReject(i)

SpecCrud == InitDash /\ [][NextCrud]_vars

----------------------------------------------------------------------------
(* Claims about the requests of the dashboard *)

\* C15: every successful create, update or delete is followed by a fresh
\* fetch, issued as the most recent one; the displayed list changes only by
\* being replaced as a whole with the response of a fetch, and no handler
\* adds, edits or removes a transaction of it.
C15_RefetchAfterMutation ==
    [][ /\ \A i \in 1..MaxInflight :
               (SaveOk(i) \/ DeleteOk(i)) =>
                   /\ Len(inflight') = Len(inflight) + 1
                   /\ inflight'[Len(inflight')].latest
                   /\ loading'
        /\ transactions' # transactions =>
               \E i \in 1..Len(inflight) :
                   /\ inflight' = RemoveAt(inflight, i)
                   /\ transactions' \in CrudSnapshots ]_vars

\* A save succeeded and its fetch is awaiting the response.
C15_Witness ==
    /\ lastAction.op = "saveOk"
    /\ ~showModal
    /\ ~saving
    /\ inflight # <<>>
    /\ inflight[Len(inflight)].latest
    /\ transactions = <<T1, T2>>

\* C16: when a create or update fails with validation errors, the returned
\* field-keyed errors are stored, the modal is not closed, the form fields
\* and the edit target keep their values, the displayed list is unchanged,
\* no fetch is issued and the saving flag is false again.
C16_ValidationFailure ==
    [][ \A i \in 1..MaxInflight, resp \in Failures :
            (resp.err = "validation" /\ SaveFail(i, resp)) =>
                /\ formErrors' = resp.data
                /\ showModal' = showModal
                /\ form' = form
                /\ editTarget' = editTarget
                /\ transactions' = transactions
                /\ inflight' = inflight
                /\ saving' = FALSE ]_vars

\* An update of transaction 1 with an edited amount failed validation.
C16_Witness ==
    /\ lastAction = Failed("saveFail", "validation")
    /\ showModal
    /\ editTarget = T1
    /\ form.amount = A85
    /\ formErrors["amount"] # ""
    /\ ~saving

\* C17: when a delete fails, a notice is raised, the transaction stays in
\* the displayed list, the list is unchanged and no fetch is issued.
C17_DeleteFailure ==
    [][ \A i \in 1..MaxInflight, resp \in DeleteFailures :
            DeleteFail(i, resp) =>
                /\ alerted'
                /\ transactions' = transactions
                /\ \A k \in 1..Len(transactions) :
                       transactions[k].id = requests[i].id =>
                           \E j \in 1..Len(transactions') :
                               transactions'[j] = transactions[k]
                /\ inflight' = inflight ]_vars

\* The delete of transaction 2 failed; it is still displayed.
C17_Witness ==
    /\ lastAction.op = "deleteFail"
    /\ alerted
    /\ deleteId = T2.id
    /\ transactions = <<T1, T2>>
    /\ inflight = <<>>

\* C18: a fetch, create, update or delete of the dashboard that fails with
\* an authentication error redirects to the login page.
C18_AuthFailureRedirects ==
    lastAction.err = "auth" => page = "login"

\* C19: only authentication failures redirect: the dashboard is left for
\* the login page after no failure of another kind.
C19_OnlyAuthRedirects ==
    page = "login" => lastAction.err = "auth"

----------------------------------------------------------------------------
(* The dashboard with all of its handlers *)

A2p5 == <<"2", ".", "5">>

\* The texts saved in the limits dialog: daily and weekly.
FrameLimitTexts == { <<Blank, Blank>>, <<A2p5, Blank>>, <<A100, A2p5>> }

FrameSnapshots == { <<T2>> }

\* No request is awaiting its response.
Quiet == inflight = <<>> /\ requests = <<>>

\* Every handler of the dashboard; the user starts a new activity when no
\* request is awaiting its response.
NextFrame ==
    \/ Render
    \/ Quiet /\ OpenLimits
    \/ CloseLimits
    \/ \E t \in FrameLimitTexts : SaveLimits(t[1], t[2])
    \/ Quiet /\ Reload
    \/ Quiet /\ SetFilter("clarity:filterType", "income")
    \/ Quiet /\ ClearFilters
    \/ FlushEffects
    \/ FetchResolve(1, <<T2>>)
    \/ FetchReject(1)
    \/ Quiet /\ openEdit(T2)
    \/ goNext
    \/ Quiet /\ handleSave
    \/ SaveOk(1)
    \/ \E resp \in Failures : SaveFail(1, resp)
    \/ Quiet /\ AskDelete(T2.id)
    \/ Quiet /\ handleDelete
    \/ DeleteOk(1)
    \/ \E resp \in DeleteFailures : DeleteFail(1, resp)
    \/ RunEffect
    \/ \E t \in timers : TimerFire(t)
    \/ DismissToast

SpecFrame == InitDash /\ [][NextFrame]_vars

----------------------------------------------------------------------------
(* Claims about the persistence of the spending limits *)

\* C20: the limits change only through Save in the limits dialog.  After a
\* save the persisted limits are the limits in memory, and a reload restores
\* them; closing the dialog, fetches, filter changes, saves and deletes of
\* transactions and milestone events leave the limits in memory and the
\* persisted limits as they were.
C20_LimitsChangeOnlyBySave ==
    [][ /\ (limits' # limits \/ limitsStore' # limitsStore) =>
               \E t \in FrameLimitTexts : SaveLimits(t[1], t[2])
        /\ \A t \in FrameLimitTexts :
               SaveLimits(t[1], t[2]) =>
                   /\ limitsStore'.present
                   /\ ParseFloat(limitsStore'.val.daily) = Num(limits'.daily)
                   /\ ParseFloat(limitsStore'.val.weekly) = Num(limits'.weekly)
        /\ Reload => (limits' = limits /\ limitsStore' = limitsStore) ]_vars

\* Limits of 100 a day and 2.5 a week were saved, and the page reloaded.
C20_Witness ==
    /\ lastAction.op = "reload"
    /\ limitsStore.present
    /\ limits = [daily |-> 100 * Cents, weekly |-> 250]
    /\ ~showLimitModal

----------------------------------------------------------------------------
(* Claims about the aggregates and the limit evaluator *)

WellFormed(ts) == SelectSeq(ts, LAMBDA t : ~ParseFloat(t.amount).nan)

InWeek(t, td) == t.type = "expense" /\ td - 6 <= t.date /\ t.date <= td

\* C7: weeklySpend is the sum of the expense amounts dated from six days
\* before today up to today; an expense dated seven days before today, or
\* after today, is not counted.  (Stated for lists of well-formed amounts.)
C7_WeeklyWindow ==
    (agg.rendered /\ WellFormed(transactions) = transactions) =>
        agg.weeklySpend =
            SumAmounts(SelectSeq(transactions, LAMBDA t : InWeek(t, today)))

\* The class the claim gives a spend (in hundredths) against a limit.
ClassOf(spend, limit) ==
    IF limit <= 0 THEN "none"
    ELSE IF 100 * spend < 80 * limit THEN "none"
    ELSE IF 100 * spend < 100 * limit THEN "warning"
    ELSE "over"

\* C8: with pct = spend / limit * 100 for limit > 0 and 0 otherwise, a limit
\* is ok (no banner) when pct < 80, warning when 80 <= pct < 100, over when
\* pct >= 100; limit 100 with spend 85 is warning and with spend 100 over;
\* a limit of 0 is ok for every spend.
C8_Classification ==
    (agg.rendered /\ ~agg.dailySpend.nan /\ ~agg.weeklySpend.nan) =>
        /\ agg.dailyBanner = ClassOf(agg.dailySpend.v, limits.daily)
        /\ agg.weeklyBanner = ClassOf(agg.weeklySpend.v, limits.weekly)
        /\ (limits.daily = 100 * Cents /\ agg.dailySpend = Units(85))
               => agg.dailyBanner = "warning"
        /\ (limits.daily = 100 * Cents /\ agg.dailySpend = Units(100))
               => agg.dailyBanner = "over"
        /\ limits.weekly = 0 => agg.weeklyBanner = "none"

\* Limit 100 with 85 spent today warns; the weekly limit is 0 and shows
\* nothing although 185 was spent in the week.
C8_Witness ==
    /\ agg.rendered
    /\ limits = [daily |-> 100 * Cents, weekly |-> 0]
    /\ agg.dailySpend = Units(85)
    /\ agg.weeklySpend = Units(185)
    /\ agg.dailyBanner = "warning"
    /\ agg.weeklyBanner = "none"

\* C9: a transaction with a non-numeric amount contributes 0 to every
\* aggregate: each aggregate equals the one computed from the well-formed
\* transactions of the list, and none is NaN.
C9_MalformedAsZero ==
    agg.rendered =>
        LET ok == WellFormed(transactions)
        IN  /\ agg.totalIncome = totalIncome(ok)
            /\ agg.totalExpense = totalExpense(ok)
            /\ agg.net = net(ok)
            /\ agg.dailySpend = dailySpend(ok, today)
            /\ agg.weeklySpend = weeklySpend(ok, today)

----------------------------------------------------------------------------
(* The category view over a fixed transaction list *)

CatDomain == {"food", "housing", "salary"}

\* Expenses of the three categories, incomes of two of them.
CatTx ==
    {Tx("expense", A100, c, Today0) : c \in CatDomain}
        \cup {Tx("income", A100, c, Today0) : c \in {"salary", "food"}}

\* What earlier sessions may have saved: a reorder saves a duplicate-free
\* list of at least two categories.
SavedOrders ==
    {q \in SeqsUpTo(CatDomain, Cardinality(CatDomain)) : NoDup(q) /\ Len(q) >= 2}

InitCat ==
    \E ts \in SeqsUpTo(CatTx, MaxCatTx) \ {<<>>},
       store \in {NoStore} \cup {[present |-> TRUE, val |-> q] : q \in SavedOrders} :
        InitShowing(ts, Today0, NoStore, store)

NextCat ==
    \/ \E tab \in {"expense", "income"} : SetActiveTab(tab)
    \/ \E c \in CatDomain : handleDragStart(c)
    \/ \E over \in CatDomain \cup {""} : handleDragEnd(over)
    \/ MountCategoryView

SpecCat == InitCat /\ [][NextCat]_vars

----------------------------------------------------------------------------
(* Claims about the category ordering store *)

Saved(store, c) == store.present /\ Includes(store.val, c)

\* C10: a drag reorder never removes a category from the persisted list:
\* every category saved before the reorder is still saved after it, also a
\* category absent from the data now shown.
C10_ReorderKeepsSaved ==
    [][\A c \in CatDomain : Saved(orderStore, c) => Saved(orderStore', c)]_vars

Elems(seq) == {seq[i] : i \in 1..Len(seq)}

PosIn(seq, x) == CHOOSE i \in 1..Len(seq) : seq[i] = x

Without(seq, x) == SelectSeq(seq, LAMBDA c : c # x)

\* C11: for a saved order without duplicates, the display order is the saved
\* categories that are observed, in saved relative order, followed by the
\* observed categories that are not saved, in first-observed order; every
\* observed category appears exactly once and no unobserved one appears;
\* saved [food, housing] with observed [housing, food, salary] gives
\* [food, housing, salary].
C11_MergeOrder ==
    NoDup(categoryOrder) =>
        LET shown == orderedCategories(transactions, activeTab, categoryOrder)
            obs   == grouped(transactions, activeTab)
            saved == categoryOrder
        IN  /\ NoDup(shown)
            /\ Elems(shown) = Elems(obs)
            /\ \A i, j \in 1..Len(shown) :
                   i < j =>
                       LET a == shown[i]
                           b == shown[j]
                       IN  IF Includes(saved, a) /\ Includes(saved, b)
                           THEN PosIn(saved, a) < PosIn(saved, b)
                           ELSE IF ~Includes(saved, a) /\ ~Includes(saved, b)
                           THEN PosIn(obs, a) < PosIn(obs, b)
                           ELSE Includes(saved, a)
            /\ (saved = <<"food", "housing">> /\ obs = <<"housing", "food", "salary">>)
                   => shown = <<"food", "housing", "salary">>

C11_Witness ==
    /\ categoryOrder = <<"food", "housing">>
    /\ grouped(transactions, activeTab) = <<"housing", "food", "salary">>
    /\ orderedCategories(transactions, activeTab, categoryOrder)
           = <<"food", "housing", "salary">>

\* C12: dropping the dragged category onto another one gives a display
\* order that is a permutation of the one before, with the moved category at
\* the target's former index and the others in their former relative order;
\* that order is what is stored, what loading the store with the same data
\* shows, and what the view shows when it is mounted again.
C12_DropMovesOne ==
    [][ /\ \A over \in CatDomain :
               (handleDragEnd(over) /\ over # activeCategory) =>
                   LET before == orderedCategories(transactions, activeTab, categoryOrder)
                       after  == orderedCategories(transactions', activeTab', categoryOrder')
                   IN  /\ Len(after) = Len(before)
                       /\ Elems(after) = Elems(before)
                       /\ NoDup(after)
                       /\ after[PosIn(before, over)] = activeCategory
                       /\ Without(after, activeCategory) = Without(before, activeCategory)
                       /\ orderStore'.present
                       /\ orderStore'.val = after
                       /\ orderedCategories(transactions', activeTab', LoadOrder(orderStore'))
                              = after
        /\ MountCategoryView =>
               \A tab \in {"expense", "income"} :
                   orderedCategories(transactions', tab, categoryOrder')
                       = orderedCategories(transactions, tab, categoryOrder) ]_vars

\* food was dropped onto salary, the last of three categories, and the view
\* has been mounted again since.
C12_Witness ==
    /\ catHist.dropped
    /\ catHist.remounted
    /\ catHist.active = "food"
    /\ catHist.over = "salary"
    /\ activeTab = "expense"
    /\ orderStore.present
    /\ orderStore.val = <<"housing", "salary", "food">>
    /\ orderedCategories(transactions, activeTab, categoryOrder)
           = <<"housing", "salary", "food">>

----------------------------------------------------------------------------
(* The totals and the charts over a fixed transaction list *)

A30  == <<"3", "0">>
A50  == <<"5", "0">>
A200 == <<"2", "0", "0">>

\* Expenses of two amounts in two categories on two days with a day between
\* them, incomes on the same two days, an expense with a malformed amount,
\* and an expense a year after.
ChartTx ==
    {Tx("expense", am, c, d) :
        am \in {A85, A100}, c \in {"food", "housing"}, d \in {Today0 - 2, Today0}}
        \cup {Tx("income", A150, "salary", d) : d \in {Today0 - 2, Today0}}
        \cup {Tx("expense", ABad, "food", Today0),
              Tx("expense", A100, "food", Today0 + YearDays)}

\* expense 50 food and income 200 salary on one day, expense 30 food on the
\* next
ChartScenario ==
    <<Tx("expense", A50, "food", Today0), Tx("income", A200, "salary", Today0),
      Tx("expense", A30, "food", Today0 + 1)>>

InitChart ==
    \E ts \in SeqsUpTo(ChartTx, MaxChartTx) \cup {ChartScenario} :
        InitShowing(ts, Today0, NoStore, NoStore)

NextChart == Render

SpecChart == InitChart /\ [][NextChart]_vars

\* The sum, in hundredths, of the amounts of the transactions of type ty in
\* ts, taken from the head of the list.
RECURSIVE CentsOf(_, _)
CentsOf(ts, ty) ==
    IF ts = <<>> THEN 0
    ELSE (IF Head(ts).type = ty THEN ParseFloat(Head(ts).amount).v ELSE 0)
             + CentsOf(Tail(ts), ty)

\* C21: for every transaction list income is the sum of the income amounts,
\* expense the sum of the expense amounts and net = income - expense; on an
\* empty list all three are 0, and the list {expense 50, income 200,
\* expense 30} gives income 200, expense 80 and net 120.  (Stated for lists
\* of well-formed amounts.)
C21_Totals ==
    (agg.rendered /\ WellFormed(transactions) = transactions) =>
        /\ agg.totalIncome = Num(CentsOf(transactions, "income"))
        /\ agg.totalExpense = Num(CentsOf(transactions, "expense"))
        /\ agg.net = Num(agg.totalIncome.v - agg.totalExpense.v)
        /\ transactions = <<>> =>
               /\ agg.totalIncome = Num(0)
               /\ agg.totalExpense = Num(0)
               /\ agg.net = Num(0)
        /\ transactions = ChartScenario =>
               /\ agg.totalIncome = Units(200)
               /\ agg.totalExpense = Units(80)
               /\ agg.net = Units(120)

\* The scenario's list has been rendered.
C21_Witness ==
    /\ agg.rendered
    /\ transactions = ChartScenario
    /\ agg.net = Units(120)

DatesOf(ts) == {ts[i].date : i \in 1..Len(ts)}

\* C22: the time series has exactly one entry for each distinct date that
\* occurs in the transaction list and none for any other date, and its
\* entries are in ascending date order whatever the order of the list.
C22_SeriesDates ==
    agg.rendered =>
        LET a == agg.areaData
        IN  /\ {a[i].date : i \in 1..Len(a)} = DatesOf(transactions)
            /\ \A i, j \in 1..Len(a) : i < j => a[i].date < a[j].date

\* The sum, in hundredths, of field f over the entries of a series
RECURSIVE SeriesSum(_, _)
SeriesSum(a, f) ==
    IF a = <<>> THEN 0 ELSE Head(a)[f].v + SeriesSum(Tail(a), f)

ExpenseCategories(ts) == Keys(OfType(ts, "expense"))

\* The sum, in hundredths, of the amounts of the expenses of category c
RECURSIVE CategoryCents(_, _)
CategoryCents(ts, c) ==
    IF ts = <<>> THEN 0
    ELSE (IF Head(ts).type = "expense" /\ Head(ts).category = c
          THEN ParseFloat(Head(ts).amount).v ELSE 0)
             + CategoryCents(Tail(ts), c)

\* C24: the category breakdown (of the expenses, the type the dashboard
\* builds it for) holds one entry per category that has at least one expense,
\* with total equal to the sum of those amounts, ordered by descending total
\* with equal totals kept in first-encountered order; computing it again on
\* the same list gives the same result, and the transaction list is left
\* unchanged.  (Stated for lists of well-formed amounts.)
C24_Breakdown ==
    [][ (Render /\ WellFormed(transactions) = transactions) =>
            LET pie  == agg'.pieData
                cats == ExpenseCategories(transactions)
            IN  /\ Len(pie) = Len(cats)
                /\ {pie[i].name : i \in 1..Len(pie)} = Elems(cats)
                /\ \A i \in 1..Len(pie) :
                       pie[i].value = Num(CategoryCents(transactions, pie[i].name))
                /\ \A i, j \in 1..Len(pie) :
                       i < j =>
                           \/ pie[i].value.v > pie[j].value.v
                           \/ /\ pie[i].value.v = pie[j].value.v
                              /\ PosIn(cats, pie[i].name) < PosIn(cats, pie[j].name)
                /\ buildPieData(transactions') = {pie}
                /\ transactions' = transactions ]_vars

\* housing 100 before food 85 + 100: food, met second, comes first with 185.
C24_WitnessDescending ==
    /\ agg.rendered
    /\ ExpenseCategories(transactions) = <<"housing", "food">>
    /\ agg.pieData = <<[name |-> "food", value |-> Units(185)],
                       [name |-> "housing", value |-> Units(100)]>>

----------------------------------------------------------------------------
(* The milestone hook over a jump across several thresholds *)

A700 == <<"7", "0", "0", ".", "0", "0">>

\* Lists whose net balances are 0, 600 and 700.
JumpSnapshots ==
    { <<>>,
      <<Tx("income", A600, "salary", Today0)>>,
      <<Tx("income", A700, "salary", Today0)>> }

NextJump ==
    \/ FetchStart(1)
    \/ \E d \in JumpSnapshots : FetchResolve(1, d)
    \/ FetchReject(1)
    \/ RunEffect
    \/ \E t \in timers : TimerFire(t)
    \/ DismissToast

SpecJump == InitDash /\ [][NextJump]_vars

\* LogNets begins with the net values ns.
LogBegins(ns) ==
    /\ Len(obsLog) >= Len(ns)
    /\ \A k \in 1..Len(ns) : obsLog[k].net = Units(ns[k])

\* C25: a threshold jumped over in one observation without firing stays
\* un-achieved and does not fire on later observations while net stays at or
\* above it: a threshold fires only at an observation whose net is at or
\* above it and whose predecessor's net was below it, and only thresholds
\* that fired are achieved.  After 0 to 600 only 100 fires, a following rise
\* 600 to 700 fires nothing, and 250 fires when net has dropped to 0 and
\* risen to 600 again.
C25_JumpedStayUnachieved ==
    /\ Elems(celebrated) = Elems(events)
    /\ \A k \in 1..Len(obsLog) :
           /\ Len(obsLog[k].fired) <= 1
           /\ \A i \in 1..Len(obsLog[k].fired) :
                  /\ k >= 2
                  /\ NLt(obsLog[k - 1].net, Units(obsLog[k].fired[i]))
                  /\ NLe(Units(obsLog[k].fired[i]), obsLog[k].net)
    /\ LogBegins(<<0, 600>>) => obsLog[2].fired = <<100>>
    /\ (LogBegins(<<0, 600>>) /\ Len(obsLog) = 2) => celebrated = <<100>>
    /\ LogBegins(<<0, 600, 700>>) =>
           /\ obsLog[3].fired = <<>>
           /\ Len(obsLog) = 3 => celebrated = <<100>>
    /\ (LogBegins(<<0, 600, 700, 0, 600>>) /\ Settled) =>
           obsLog[5].fired = <<250>>

\* Net went 0, 600, 700, 0, 600: 100 fired at the first 600, nothing at 700,
\* 250 at the second 600, and 500 is still un-achieved.
C25_Witness ==
    /\ LogBegins(<<0, 600, 700, 0, 600>>)
    /\ Settled
    /\ events = <<100, 250>>
    /\ celebrated = <<100, 250>>

----------------------------------------------------------------------------
(* The two tabs of the category view *)

MaxTabTx == 4   \* length of the transaction lists shown on the two tabs

\* Two categories of expenses and two of incomes, one of them on both tabs.
TabTx ==
    {Tx("expense", A100, c, Today0) : c \in {"food", "housing"}}
        \cup {Tx("income", A100, c, Today0) : c \in {"salary", "food"}}

InitTabs ==
    \E ts \in SeqsUpTo(TabTx, MaxTabTx) \ {<<>>},
       store \in {NoStore} \cup {[present |-> TRUE, val |-> q] : q \in SavedOrders} :
        InitShowing(ts, Today0, NoStore, store)

NextTabs ==
    \/ \E tab \in {"expense", "income"} : SetActiveTab(tab)
    \/ \E c \in CatDomain : handleDragStart(c)
    \/ \E over \in CatDomain \cup {""} : handleDragEnd(over)
    \/ MountCategoryView

SpecTabs == InitTabs /\ [][NextTabs]_vars

OtherTab(tab) == IF tab = "expense" THEN "income" ELSE "expense"

\* C26: reordering the categories on one tab of the category view leaves the
\* display order of the categories on the other tab unchanged, for every
\* transaction list and every previously saved order.
C26_OtherTabUnchanged ==
    [][ \A over \in CatDomain :
            handleDragEnd(over) =>
                orderedCategories(transactions', OtherTab(activeTab), categoryOrder')
                    = orderedCategories(transactions, OtherTab(activeTab), categoryOrder)
      ]_vars

----------------------------------------------------------------------------
(* Claims about the transaction form *)

\* C27: a save response, success or failure, that arrives after the user has
\* closed the transaction modal and opened it again for another add or edit
\* does not close the newly opened modal and does not put the old request's
\* errors into it.
C27_LateSaveResponse ==
    [][ \A i \in 1..MaxInflight :
            (i <= Len(requests) /\ requests[i].reopened /\ showModal) =>
                /\ SaveOk(i) => showModal'
                /\ \A resp \in Failures :
                       SaveFail(i, resp) => formErrors' = formErrors ]_vars

----------------------------------------------------------------------------
(* Claims about the loading flag *)

\* C28: whenever at least one fetch is awaiting its response the loading flag
\* is true, also when fetches overlap: the response or failure of an earlier
\* fetch does not set loading to false while a later fetch is still pending.
C28_LoadingWhilePending ==
    (page = "dashboard" /\ inflight # <<>>) => loading

----------------------------------------------------------------------------
(* The transaction form over a list with a malformed amount *)

AZero == <<"0">>

\* A transaction whose amount is not a number
TBad == TxFull(3, "expense", ABad, "food", "", Today0)

\* What the controls of the form can set: the number input gives "" or a
\* numeral, the tiles give a category of CATEGORIES.
WizardEdits ==
    { <<"amount", A85>>, <<"amount", Blank>>, <<"amount", AZero>>,
      <<"amount", AMinus5>>, <<"type", "income">>, <<"category", "food">>,
      <<"description", "rent">> }

InitWizard == InitShowing(<<T1, TBad>>, Today0, NoStore, NoStore)

NextWizard ==
    \/ openAdd
    \/ \E tx \in {T1, TBad} : openEdit(tx)
    \/ \E e \in WizardEdits : EditForm(e[1], e[2])
    \/ goNext
    \/ goBack
    \/ CloseModal
    \/ handleSave
    \/ SaveOk(1)
    \/ \E resp \in Failures : SaveFail(1, resp)
    \/ FetchResolve(1, <<T1, TBad>>)

SpecWizard == InitWizard /\ [][NextWizard]_vars

\* C29: in every reachable state of the transaction wizard the step is 0, 1
\* or 2, and a create or update request is only ever sent from step 2 with a
\* form whose amount parses to a number greater than 0 and whose category is
\* non-empty, whatever sequence of Next, Back, Enter and field edits preceded
\* it.
C29_WizardGate ==
    [][ /\ step' \in 0..LastStep
        /\ handleSave =>
               /\ step = LastStep
               /\ NGt(ParseFloat(form.amount), Num(0))
               /\ form.category # "" ]_vars

----------------------------------------------------------------------------
(* Logging out and in again *)

\* Expenses of two categories
AuthList ==
    <<Tx("expense", A100, "food", Today0), Tx("expense", A100, "housing", Today0)>>

InitAuth ==
    \E ostore \in {NoStore, [present |-> TRUE, val |-> <<"salary", "food">>]} :
        InitShowing(AuthList, Today0, NoStore, ostore)

\* The category view is on the page.
CategoryViewShown ==
    /\ page = "dashboard"
    /\ ~loading
    /\ transactions # <<>>
    /\ view = "category"
    /\ NoOverlay

NextAuth ==
    \/ Quiet /\ handleLogout
    \/ handleLogin
    \/ FlushEffects
    \/ FetchResolve(1, AuthList)
    \/ FetchReject(1)
    \/ Render
    \/ \E v \in {"table", "category"} : Quiet /\ SetView(v)
    \/ Quiet /\ OpenLimits
    \/ SaveLimits(A100, A2p5)
    \/ \E c \in {"food", "housing"} : CategoryViewShown /\ handleDragStart(c)
    \/ \E over \in {"food", "housing", ""} : CategoryViewShown /\ handleDragEnd(over)

SpecAuth == InitAuth /\ [][NextAuth]_vars

\* C30: logout removes both the access and the refresh token and navigates
\* to login, and changes nothing else: the persisted spending limits and the
\* persisted category order keep their values, and so does the session's
\* storage.  What is in memory is what is persisted, so the login that
\* follows restores the limits and the category order the user had set.
C30_LogoutKeepsPreferences ==
    [][ /\ handleLogout =>
               /\ tokens' = LoggedOut
               /\ page' = "login"
               /\ limits = LoadLimits(limitsStore)
               /\ categoryOrder = LoadOrder(orderStore)
               /\ limitsStore' = limitsStore
               /\ orderStore' = orderStore
               /\ sessionStorage' = sessionStorage
        /\ page = "login" =>
               /\ limitsStore' = limitsStore
               /\ orderStore' = orderStore
        /\ handleLogin =>
               /\ tokens' = LoggedIn
               /\ page' = "dashboard"
               /\ limits' = LoadLimits(limitsStore)
               /\ categoryOrder' = LoadOrder(orderStore)
               /\ limits' = limits
               /\ categoryOrder' = categoryOrder ]_vars

\* The user saved limits, dropped food onto housing, logged out and in
\* again, and the list has been fetched: the order shown is the one set.
C30_Witness ==
    /\ page = "dashboard"
    /\ tokens = LoggedIn
    /\ catHist.dropped
    /\ catHist.remounted
    /\ ~loading
    /\ transactions = AuthList
    /\ orderStore = [present |-> TRUE, val |-> <<"housing", "food">>]
    /\ orderedCategories(transactions, activeTab, categoryOrder) = <<"housing", "food">>
    /\ limitsStore.present
    /\ limits = [daily |-> 100 * Cents, weekly |-> 250]

============================================================================
